---- MODULE Spec2Model ----
(***************************************************************************)
(* Model of package cache (src/cache/cache.go): a bounded key/value cache  *)
(* guarded by a sync.RWMutex, with capacity eviction on Set (evictLRU) and *)
(* a background goroutine (ttlEnforcer) that sweeps expired entries when   *)
(* its timer fires.                                                        *)
(*                                                                         *)
(* Time is an integer clock; every time.Now() in the code reads it.  The   *)
(* clock has a finite granularity, so two reads may return the same value. *)
(* A critical section is two steps: acquiring the lock together with the   *)
(* body it protects, and the deferred unlock.                              *)
(***************************************************************************)
EXTENDS Integers, Sequences, FiniteSets, TLC

\* ---------------------------------------------------------------- bounds
MaxTime == 2      \* the clock runs over 0..MaxTime

\* ---------------------------------------------------------------- inputs
Keys    == {"", "a", "b"}     \* keys callers use; "" is a legal Go string key
Values  == {1, 2}             \* values callers store
Callers == {"c1", "c2"}       \* goroutines calling Get/Set/Keys
Nil     == 0                  \* the nil value Get returns when not found
SizeInputs == {-1, 0, 2}      \* the size argument of New
TtlInputs  == {-1, 0, 1}      \* the ttl argument of New, in clock ticks

VARIABLES
    phase,      \* "init": New not yet called; "error": New returned (nil, err);
                \* "ready": New returned (cache, nil)
    size,       \* argument size of New; Cache.size once ready
    ttl,        \* argument ttl of New; Cache.ttl once ready
    allocated,  \* TRUE once make(map[string]entry) has run
    store,      \* Cache.store: key -> [value, time]
    mu,         \* Cache.mu: [writer |-> a Lock call has announced itself or
                \* holds the lock, readers |-> number of read locks held]
    cancelled,  \* ctx.Done() is closed (Cache.cancel was called)
    clock,      \* what time.Now() returns
    timer,      \* the time.Timer of ttlEnforcer: "none", "armed",
                \* "fired" (a value waits in timer.C), "drained" (expired, C empty)
    deadline,   \* when the armed timer is due
    sweeperPc,  \* ttlEnforcer goroutine: "none", "start", "select",
                \* "sweep_wait" (calling Lock), "sweep_pending" (Lock waits
                \* for the readers to leave), "sweep_locked", "exited"
    pc,         \* per caller: "idle", "get", "set", "keys"
    key,        \* per caller: the key argument of the call in progress
    val,        \* per caller: the value argument of the Set in progress
    getRet,     \* per caller: what the Get in progress returns, <<value, found>>
    keysRet     \* per caller: what the Keys in progress returns

vars == <<phase, size, ttl, allocated, store, mu, cancelled, clock, timer,
          deadline, sweeperPc, pc, key, val, getRet, keysRet>>

cacheVars  == <<phase, size, ttl, allocated>>
callerVars == <<pc, key, val, getRet, keysRet>>
sweepVars  == <<timer, deadline, sweeperPc>>

\* ------------------------------------------------------------- data model
EmptyStore == [k \in {} |-> [value |-> Nil, time |-> 0]]
NoRet      == <<Nil, FALSE>>

\* len(c.store)
StoreLen(s) == Cardinality(DOMAIN s)

\* delete(c.store, k): a no-op when k is not in the map
Delete(s, k) == [x \in DOMAIN s \ {k} |-> s[x]]

\* c.store[k] = e
Put(s, k, e) == [x \in DOMAIN s \cup {k} |-> IF x = k THEN e ELSE s[x]]

\* t.Before(u)
Before(t, u) == t < u

\* all orders in which "for k := range c.store" may visit the keys
Orders(S) == {o \in [1..Cardinality(S) -> S] :
                 \A i, j \in 1..Cardinality(S) : i # j => o[i] # o[j]}

\* ------------------------------------------------------------------- New
Init ==
    /\ phase = "init"
    /\ size \in SizeInputs
    /\ ttl \in TtlInputs
    /\ allocated = FALSE
    /\ store = EmptyStore
    /\ mu = [writer |-> FALSE, readers |-> 0]
    /\ cancelled = FALSE
    /\ clock = 0
    /\ timer = "none"
    /\ deadline = 0
    /\ sweeperPc = "none"
    /\ pc = [p \in Callers |-> "idle"]
    /\ key = [p \in Callers |-> ""]
    /\ val = [p \in Callers |-> Nil]
    /\ getRet = [p \in Callers |-> NoRet]
    /\ keysRet = [p \in Callers |-> <<>>]

\* New with size merely negative rejected: a zero size would be accepted
NewAcceptsZero ==
    /\ phase = "init"
    /\ IF size < 0 \/ ttl < 0
       THEN /\ phase' = "error"
            /\ UNCHANGED <<allocated, sweeperPc>>
       ELSE /\ phase' = "ready"
            /\ allocated' = TRUE
            /\ sweeperPc' = "start"
    /\ UNCHANGED <<size, ttl, store, mu, cancelled, clock, timer, deadline,
                   callerVars>>

\* New(size, ttl): both arguments are validated before anything is created
New ==
    /\ phase = "init"
    /\ IF size <= 0 \/ ttl <= 0
       THEN /\ phase' = "error"
            /\ UNCHANGED <<allocated, sweeperPc>>
       ELSE /\ phase' = "ready"
            /\ allocated' = TRUE
            /\ sweeperPc' = "start"      \* go cache.ttlEnforcer(ctx)
    /\ UNCHANGED <<size, ttl, store, mu, cancelled, clock, timer, deadline,
                   callerVars>>

\* Close(): c.cancel(); nothing else
Close ==
    /\ phase = "ready"
    /\ cancelled' = TRUE
    /\ UNCHANGED <<cacheVars, store, mu, clock, sweepVars, callerVars>>

\* time passes
Tick ==
    /\ phase = "ready"
    /\ clock < MaxTime
    /\ clock' = clock + 1
    /\ UNCHANGED <<cacheVars, store, mu, cancelled, sweepVars, callerVars>>

\* ------------------------------------------------------------------- Get
\* a lookup that treats an entry older than ttl as absent (lazy expiration)
LookupFresh(s, k) ==
    IF k \in DOMAIN s /\ clock - s[k].time <= ttl
    THEN <<s[k].value, TRUE>>
    ELSE <<Nil, FALSE>>

\* value, ok := c.store[key]
LookupAlwaysFound(s, k) ==
    IF k \in DOMAIN s THEN <<s[k].value, TRUE>> ELSE <<Nil, TRUE>>

Lookup(s, k) ==
    IF k \in DOMAIN s THEN <<s[k].value, TRUE>> ELSE <<Nil, FALSE>>

\* a Get that refreshes the timestamp of the entry it reads (true LRU)
GetRefreshing(p) ==
    /\ phase = "ready" /\ pc[p] = "idle"
    /\ ~mu.writer
    /\ \E k \in Keys :
          /\ key' = [key EXCEPT ![p] = k]
          /\ getRet' = [getRet EXCEPT ![p] = Lookup(store, k)]
          /\ store' = IF k \in DOMAIN store
                      THEN [store EXCEPT ![k].time = clock]
                      ELSE store
    /\ mu' = [mu EXCEPT !.readers = @ + 1]
    /\ pc' = [pc EXCEPT ![p] = "get"]
    /\ UNCHANGED <<cacheVars, cancelled, clock, sweepVars, val, keysRet>>

\* Get(key): RLock, then the lookup
Get(p) ==
    /\ phase = "ready" /\ pc[p] = "idle"
    /\ ~mu.writer
    /\ \E k \in Keys :
          /\ key' = [key EXCEPT ![p] = k]
          /\ getRet' = [getRet EXCEPT ![p] = Lookup(store, k)]
    /\ mu' = [mu EXCEPT !.readers = @ + 1]
    /\ pc' = [pc EXCEPT ![p] = "get"]
    /\ UNCHANGED <<cacheVars, store, cancelled, clock, sweepVars, val, keysRet>>

\* the deferred RUnlock of Get; the result goes to the caller
GetReturn(p) ==
    /\ pc[p] = "get"
    /\ mu' = [mu EXCEPT !.readers = @ - 1]
    /\ pc' = [pc EXCEPT ![p] = "idle"]
    /\ key' = [key EXCEPT ![p] = ""]
    /\ getRet' = [getRet EXCEPT ![p] = NoRet]
    /\ UNCHANGED <<cacheVars, store, cancelled, clock, sweepVars, val, keysRet>>

\* ------------------------------------------------------------------ Keys
\* Keys with keys := make([]string, len(c.store)) followed by append: the
\* result starts with len(c.store) empty strings
KeysCallAppend(p) ==
    /\ phase = "ready" /\ pc[p] = "idle"
    /\ ~mu.writer
    /\ \E order \in Orders(DOMAIN store) :
          keysRet' = [keysRet EXCEPT ![p] = [i \in 1..Len(order) |-> ""] \o order]
    /\ mu' = [mu EXCEPT !.readers = @ + 1]
    /\ pc' = [pc EXCEPT ![p] = "keys"]
    /\ UNCHANGED <<cacheVars, store, cancelled, clock, sweepVars, key, val, getRet>>

\* Keys(): RLock, then the keys in iteration order
KeysCall(p) ==
    /\ phase = "ready" /\ pc[p] = "idle"
    /\ ~mu.writer
    /\ \E order \in Orders(DOMAIN store) :
          keysRet' = [keysRet EXCEPT ![p] = order]
    /\ mu' = [mu EXCEPT !.readers = @ + 1]
    /\ pc' = [pc EXCEPT ![p] = "keys"]
    /\ UNCHANGED <<cacheVars, store, cancelled, clock, sweepVars, key, val, getRet>>

\* Keys returning without releasing its read lock
KeysReturnNoUnlock(p) ==
    /\ pc[p] = "keys"
    /\ pc' = [pc EXCEPT ![p] = "idle"]
    /\ keysRet' = [keysRet EXCEPT ![p] = <<>>]
    /\ UNCHANGED <<cacheVars, store, mu, cancelled, clock, sweepVars, key, val, getRet>>

\* the deferred RLocker().Unlock() of Keys
KeysReturn(p) ==
    /\ pc[p] = "keys"
    /\ mu' = [mu EXCEPT !.readers = @ - 1]
    /\ pc' = [pc EXCEPT ![p] = "idle"]
    /\ keysRet' = [keysRet EXCEPT ![p] = <<>>]
    /\ UNCHANGED <<cacheVars, store, cancelled, clock, sweepVars, key, val, getRet>>

\* -------------------------------------------------------------- evictLRU
\* the loop of evictLRU over the keys in the order given: the key it ends with
RECURSIVE ScanLRU(_, _, _, _)
ScanLRU(s, order, minTime, k) ==
    IF order = <<>>
    THEN k
    ELSE LET h == Head(order) IN
         IF Before(s[h].time, minTime)
         THEN ScanLRU(s, Tail(order), s[h].time, h)
         ELSE ScanLRU(s, Tail(order), minTime, k)

\* evictLRU(): minTime, key := time.Now(), ""; scan; delete(c.store, key)
EvictLRU(s, order, now) == Delete(s, ScanLRU(s, order, now, ""))

\* ------------------------------------------------------------------- Set
\* entry{value: value, time: time.Now()} with the time left at its zero value
NewEntryZeroTime(v, now) == [value |-> v, time |-> 0]

\* entry{value: value, time: time.Now()}
NewEntry(v, now) == [value |-> v, time |-> now]

\* Set with the capacity test written len(c.store) <= c.size
SetEvictsBelowCapacity(p) ==
    /\ phase = "ready" /\ pc[p] = "idle"
    /\ ~mu.writer /\ mu.readers = 0
    /\ \E k \in Keys, v \in Values, now2 \in clock..MaxTime :
          /\ key' = [key EXCEPT ![p] = k]
          /\ val' = [val EXCEPT ![p] = v]
          /\ IF StoreLen(store) <= size
             THEN \E order \in Orders(DOMAIN store) :
                     store' = Put(EvictLRU(store, order, clock), k, NewEntry(v, now2))
             ELSE store' = Put(store, k, NewEntry(v, now2))
          /\ clock' = now2
    /\ mu' = [mu EXCEPT !.writer = TRUE]
    /\ pc' = [pc EXCEPT ![p] = "set"]
    /\ UNCHANGED <<cacheVars, cancelled, sweepVars, getRet, keysRet>>

\* Set that refuses to run on a closed cache
SetRefusesClosed(p) ==
    /\ phase = "ready" /\ pc[p] = "idle"
    /\ ~cancelled
    /\ ~mu.writer /\ mu.readers = 0
    /\ \E k \in Keys, v \in Values, now2 \in clock..MaxTime :
          /\ key' = [key EXCEPT ![p] = k]
          /\ val' = [val EXCEPT ![p] = v]
          /\ IF StoreLen(store) = size
             THEN \E order \in Orders(DOMAIN store) :
                     store' = Put(EvictLRU(store, order, clock), k, NewEntry(v, now2))
             ELSE store' = Put(store, k, NewEntry(v, now2))
          /\ clock' = now2
    /\ mu' = [mu EXCEPT !.writer = TRUE]
    /\ pc' = [pc EXCEPT ![p] = "set"]
    /\ UNCHANGED <<cacheVars, cancelled, sweepVars, getRet, keysRet>>

\* Set(key, value): Lock, evict one when at capacity, insert.  The clock is
\* read twice (in evictLRU, then in Set) and may advance in between.
Set(p) ==
    /\ phase = "ready" /\ pc[p] = "idle"
    /\ ~mu.writer /\ mu.readers = 0
    /\ \E k \in Keys, v \in Values, now2 \in clock..MaxTime :
          /\ key' = [key EXCEPT ![p] = k]
          /\ val' = [val EXCEPT ![p] = v]
          /\ IF StoreLen(store) = size      \* at capacity: evict one
             THEN \E order \in Orders(DOMAIN store) :
                     store' = Put(EvictLRU(store, order, clock), k, NewEntry(v, now2))
             ELSE store' = Put(store, k, NewEntry(v, now2))
          /\ clock' = now2
    /\ mu' = [mu EXCEPT !.writer = TRUE]
    /\ pc' = [pc EXCEPT ![p] = "set"]
    /\ UNCHANGED <<cacheVars, cancelled, sweepVars, getRet, keysRet>>

\* the deferred Unlock of Set
SetReturn(p) ==
    /\ pc[p] = "set"
    /\ mu' = [mu EXCEPT !.writer = FALSE]
    /\ pc' = [pc EXCEPT ![p] = "idle"]
    /\ key' = [key EXCEPT ![p] = ""]
    /\ val' = [val EXCEPT ![p] = Nil]
    /\ UNCHANGED <<cacheVars, store, cancelled, clock, sweepVars, getRet, keysRet>>

\* ---------------------------------------------------------- evictExpired
\* now.Sub(v.time) >= c.ttl
ExpiredAtTtl(e, now) == now - e.time >= ttl

\* now.Sub(v.time) > c.ttl
Expired(e, now) == now - e.time > ttl

\* the loop of evictExpired: every expired entry is deleted
Sweep(s, now) == [k \in {x \in DOMAIN s : ~Expired(s[x], now)} |-> s[k]]

\* c.mu.Lock() in evictExpired, first half: once no other writer is in, the
\* call announces itself, and from then on RLock blocks (sync.RWMutex)
EvictExpiredLock ==
    /\ sweeperPc = "sweep_wait"
    /\ ~mu.writer
    /\ mu' = [mu EXCEPT !.writer = TRUE]
    /\ sweeperPc' = "sweep_pending"
    /\ UNCHANGED <<cacheVars, store, cancelled, clock, timer, deadline, callerVars>>

\* evictExpired scanning without waiting for the readers to leave
EvictExpiredNoWait ==
    /\ sweeperPc = "sweep_pending"
    /\ mu' = mu
    /\ store' = Sweep(store, clock)
    /\ sweeperPc' = "sweep_locked"
    /\ UNCHANGED <<cacheVars, cancelled, clock, timer, deadline, callerVars>>

\* evictExpired(): the lock is acquired when the last reader has left; then
\* now := time.Now() and the loop
EvictExpired ==
    /\ sweeperPc = "sweep_pending"
    /\ mu.readers = 0
    /\ mu' = mu
    /\ store' = Sweep(store, clock)
    /\ sweeperPc' = "sweep_locked"
    /\ UNCHANGED <<cacheVars, cancelled, clock, timer, deadline, callerVars>>

\* ttlEnforcer calling timer.Reset(c.ttl) after each sweep
EvictExpiredReturnReset ==
    /\ sweeperPc = "sweep_locked"
    /\ mu' = [mu EXCEPT !.writer = FALSE]
    /\ sweeperPc' = "select"
    /\ timer' = "armed"
    /\ deadline' = clock + ttl
    /\ UNCHANGED <<cacheVars, store, cancelled, clock, callerVars>>

\* the deferred Unlock of evictExpired; ttlEnforcer loops back to its select
EvictExpiredReturn ==
    /\ sweeperPc = "sweep_locked"
    /\ mu' = [mu EXCEPT !.writer = FALSE]
    /\ sweeperPc' = "select"
    /\ UNCHANGED <<cacheVars, store, cancelled, clock, timer, deadline, callerVars>>

\* ----------------------------------------------------------- ttlEnforcer
\* timer := time.NewTimer(c.ttl)
SweeperStart ==
    /\ sweeperPc = "start"
    /\ timer' = "armed"
    /\ deadline' = clock + ttl
    /\ sweeperPc' = "select"
    /\ UNCHANGED <<cacheVars, store, mu, cancelled, clock, callerVars>>

\* the runtime sends on timer.C once the deadline has passed
TimerFire ==
    /\ timer = "armed"
    /\ clock >= deadline
    /\ timer' = "fired"
    /\ deadline' = 0
    /\ UNCHANGED <<cacheVars, store, mu, cancelled, clock, sweeperPc, callerVars>>

\* case <-timer.C: c.evictExpired()   (the timer is not reset)
SweeperRecv ==
    /\ sweeperPc = "select"
    /\ timer = "fired"
    /\ timer' = "drained"
    /\ sweeperPc' = "sweep_wait"
    /\ UNCHANGED <<cacheVars, store, mu, cancelled, clock, deadline, callerVars>>

\* case <-ctx.Done(): break, which leaves the select but not the for loop
SweeperExitBreak ==
    /\ sweeperPc = "select"
    /\ cancelled
    /\ sweeperPc' = "select"
    /\ UNCHANGED <<cacheVars, store, mu, cancelled, clock, timer, deadline,
                   callerVars>>

\* case <-ctx.Done(): return
SweeperExit ==
    /\ sweeperPc = "select"
    /\ cancelled
    /\ sweeperPc' = "exited"
    /\ UNCHANGED <<cacheVars, store, mu, cancelled, clock, timer, deadline,
                   callerVars>>

\* ------------------------------------------------------------------ Next
Next ==
    \/ New
    \/ Close
    \/ Tick
    \/ \E p \in Callers : Get(p)
    \/ \E p \in Callers : GetReturn(p)
    \/ \E p \in Callers : KeysCall(p)
    \/ \E p \in Callers : KeysReturn(p)
    \/ \E p \in Callers : Set(p)
    \/ \E p \in Callers : SetReturn(p)
    \/ SweeperStart
    \/ TimerFire
    \/ SweeperRecv
    \/ SweeperExit
    \/ EvictExpiredLock
    \/ EvictExpired
    \/ EvictExpiredReturn

Spec == Init /\ [][Next]_vars

\* what the scheduler, the runtime timer and sync.RWMutex guarantee: a goroutine
\* that can run does run, a due timer fires, time passes, every lock that is
\* held is released, and a Lock call gets in once the lock is free often enough
Fairness ==
    /\ WF_vars(Tick)
    /\ WF_vars(SweeperStart)
    /\ WF_vars(TimerFire)
    /\ WF_vars(SweeperRecv)
    /\ WF_vars(SweeperExit)
    /\ SF_vars(EvictExpiredLock)
    /\ WF_vars(EvictExpired)
    /\ WF_vars(EvictExpiredReturn)
    /\ \A p \in Callers : WF_vars(GetReturn(p))
    /\ \A p \in Callers : WF_vars(KeysReturn(p))
    /\ \A p \in Callers : WF_vars(SetReturn(p))

FairSpec == Spec /\ Fairness

\* the same program with callers that use the keys "" and "a" and the value 1
\* only: progress of the lock and of the sweeper does not depend on the data,
\* and the smaller table lets the behaviours be checked to their end
SmallData == \A p \in Callers : key[p] \in {"", "a"} /\ val[p] \in {Nil, 1}

LockNext ==
    \/ New
    \/ Close
    \/ Tick
    \/ \E p \in Callers : Get(p) /\ SmallData'
    \/ \E p \in Callers : GetReturn(p)
    \/ \E p \in Callers : KeysCall(p)
    \/ \E p \in Callers : KeysReturn(p)
    \/ \E p \in Callers : Set(p) /\ SmallData'
    \/ \E p \in Callers : SetReturn(p)
    \/ SweeperStart
    \/ TimerFire
    \/ SweeperRecv
    \/ SweeperExit
    \/ EvictExpiredLock
    \/ EvictExpired
    \/ EvictExpiredReturn

LockSpec == Init /\ [][LockNext]_vars /\ Fairness

\* ------------------------------------------------------- steps, by effect
SetStep(p)        == pc[p] = "idle" /\ pc'[p] = "set"
SetReturnStep(p)  == pc[p] = "set" /\ pc'[p] = "idle"
GetStep(p)        == pc[p] = "idle" /\ pc'[p] = "get"
GetReturnStep(p)  == pc[p] = "get" /\ pc'[p] = "idle"
KeysStep(p)       == pc[p] = "idle" /\ pc'[p] = "keys"
KeysReturnStep(p) == pc[p] = "keys" /\ pc'[p] = "idle"
SweepStep         == sweeperPc = "sweep_pending" /\ sweeperPc' = "sweep_locked"
SweepReturnStep   == sweeperPc = "sweep_locked" /\ sweeperPc' = "select"

\* the entry of k is older than ttl
Stale(k) == k \in DOMAIN store /\ clock - store[k].time > ttl

\* ---------------------------------------------------------------- claims

\* C1: whenever no Set is in progress, the table holds at most size entries.
C1_CapacityInvariant ==
    (phase = "ready" /\ \A p \in Callers : pc[p] # "set") => StoreLen(store) <= size

\* C2: a Set of a key that is not in the table, on a table of exactly size
\* entries, removes exactly one entry, one whose timestamp is the minimum over
\* the entries stored before; every other entry stays as it was.
C2_EvictionOnFull ==
    [][\A p \in Callers :
          (SetStep(p) /\ key'[p] \notin DOMAIN store /\ StoreLen(store) = size)
          => \E victim \in DOMAIN store :
                /\ \A k \in DOMAIN store : store[victim].time <= store[k].time
                /\ DOMAIN store' = (DOMAIN store \ {victim}) \cup {key'[p]}
                /\ \A k \in DOMAIN store \ {victim} : store'[k] = store[k]]_vars

\* C3: a Set of a key that is in the table, on a table of at most size entries,
\* leaves the set of keys as it was and every other entry untouched; the key
\* then holds the new value with a timestamp not before the call.
C3_Overwrite ==
    [][\A p \in Callers :
          (SetStep(p) /\ key'[p] \in DOMAIN store /\ StoreLen(store) <= size)
          => /\ DOMAIN store' = DOMAIN store
             /\ \A k \in DOMAIN store \ {key'[p]} : store'[k] = store[k]
             /\ store'[key'[p]].value = val'[p]
             /\ store'[key'[p]].time >= clock]_vars

\* C4: when Set(k, v) has inserted, the table maps k to v with the clock value
\* that Set read as timestamp, and it still does when Set returns.
C4_SetPostcondition ==
    [][\A p \in Callers :
          /\ SetStep(p) => /\ key'[p] \in DOMAIN store'
                           /\ store'[key'[p]] = [value |-> val'[p], time |-> clock']
          /\ SetReturnStep(p) => /\ store' = store
                                 /\ key[p] \in DOMAIN store
                                 /\ store[key[p]].value = val[p]]_vars

C4_Witness ==
    \E p \in Callers :
        /\ pc[p] = "set" /\ val[p] = 2 /\ clock > 0
        /\ StoreLen(store) = 2
        /\ store[key[p]] = [value |-> 2, time |-> clock]

\* C5: Get(k) returns (v, true) exactly when k is in the table at the lookup and
\* (nil, false) otherwise, where v is the value in the table; and the value in
\* the table for k is always the one of the most recent Set(k, .): every Set(k, v)
\* leaves v there, and no other step puts a value there or changes it.
C5_GetResult ==
    [][/\ \A p \in Callers :
             GetStep(p) =>
                getRet'[p] = IF key'[p] \in DOMAIN store
                             THEN <<store[key'[p]].value, TRUE>>
                             ELSE <<Nil, FALSE>>
       /\ \A p \in Callers :
             SetStep(p) => /\ key'[p] \in DOMAIN store'
                           /\ store'[key'[p]].value = val'[p]
       /\ \A k \in DOMAIN store' :
             \/ k \in DOMAIN store /\ store'[k].value = store[k].value
             \/ \E p \in Callers : SetStep(p) /\ key'[p] = k]_vars

\* two Gets in progress, one that found the value of the last Set and one that
\* missed a key while the table is not empty
C5_Witness ==
    \E p, q \in Callers :
        /\ pc[p] = "get" /\ getRet[p] = <<2, TRUE>>
        /\ pc[q] = "get" /\ getRet[q] = <<Nil, FALSE>>

\* C6: in an unclosed cache every entry older than ttl eventually stops being
\* one: a sweep removes it (or a Set writes it again).  Stated for the entries
\* that are stale while the sweeper's timer is due, has fired or was consumed,
\* so that the bound on the clock keeps no sweep from happening.
C6_TtlExpiration ==
    ([]~cancelled) =>
        \A k \in Keys :
            [](( /\ Stale(k)
                 /\ sweeperPc # "start"
                 /\ (timer = "armed" => clock >= deadline) )
               => <>(~Stale(k)))

\* C7: a sweep that ends in an unclosed cache leaves the timer armed again (or
\* already fired again).
C7_TimerRearmed ==
    [][(SweepReturnStep /\ ~cancelled') => timer' \in {"armed", "fired"}]_vars

\* C8: a sweep removes all and only the entries whose age, at the clock value
\* read under the lock, is greater than ttl; the others keep value and timestamp.
C8_SweepExact ==
    [][SweepStep =>
          /\ DOMAIN store' = {k \in DOMAIN store : clock - store[k].time <= ttl}
          /\ \A k \in DOMAIN store' : store'[k] = store[k]]_vars

\* a sweep has run and an entry whose age is exactly ttl is still there, while
\* another key is gone
C8_Witness ==
    /\ sweeperPc = "sweep_locked"
    /\ \E k \in DOMAIN store : clock - store[k].time = ttl
    /\ StoreLen(store) = 1

\* C9: Get, found or not, and Keys leave the table as it is, as do their returns.
C9_ReadsDoNotWrite ==
    [][\A p \in Callers :
          (GetStep(p) \/ GetReturnStep(p) \/ KeysStep(p) \/ KeysReturnStep(p))
          => store' = store]_vars

\* a Get has found an entry that was written before now, and a Keys call is in
\* progress
C9_Witness ==
    \E p, q \in Callers :
        /\ pc[p] = "get" /\ getRet[p][2] /\ store[key[p]].time < clock
        /\ pc[q] = "keys" /\ Len(keysRet[q]) = 2

\* C10: New fails, with no table and no sweeper, exactly when size <= 0 or
\* ttl <= 0; otherwise it returns a cache with an empty table and one sweeper.
C10_Construction ==
    [][phase = "init" =>
          IF size <= 0 \/ ttl <= 0
          THEN phase' = "error" /\ ~allocated' /\ sweeperPc' = "none"
               /\ timer' = "none"
          ELSE phase' = "ready" /\ allocated' /\ store' = EmptyStore
               /\ sweeperPc' = "start"]_vars

\* New(2, 0) was rejected
C10_Witness == phase = "error" /\ size > 0 /\ ttl = 0

\* ------------------------------------------- more steps and state shapes
CloseStep       == ~cancelled /\ cancelled'
SweeperRecvStep == sweeperPc = "select" /\ sweeperPc' = "sweep_wait"

Readers    == {p \in Callers : pc[p] \in {"get", "keys"}}
Writers    == {p \in Callers : pc[p] = "set"}
Sweeping   == sweeperPc \in {"sweep_wait", "sweep_pending", "sweep_locked"}

\* the elements of a sequence
Range(seq) == {seq[i] : i \in 1..Len(seq)}

\* C11: no sweep cycle begins once Close has returned.
C11_NoSweepAfterClose ==
    [][cancelled => ~SweeperRecvStep]_vars

\* C12: while a Set or a sweep holds the write lock, no other Get, Keys, Set or
\* sweep is inside its critical section; and what a Get in progress has read is
\* still what the table holds.
C12_MutualExclusion ==
    /\ \A p \in Writers :
          /\ \A q \in Callers \ {p} : pc[q] = "idle"
          /\ sweeperPc # "sweep_locked"
    /\ sweeperPc = "sweep_locked" => \A q \in Callers : pc[q] = "idle"
    /\ \A p \in Callers : pc[p] = "get" => getRet[p] = Lookup(store, key[p])

\* a Set holds the lock while the sweeper is calling Lock and the other caller
\* is outside
C12_Witness ==
    /\ sweeperPc = "sweep_wait"
    /\ \E p \in Callers : pc[p] = "set" /\ StoreLen(store) = 2

\* C13: the list Keys returns has the length of the table and holds exactly the
\* keys of the table (so each once), the table being the one of the whole call.
C13_KeysSnapshot ==
    \A p \in Callers :
        pc[p] = "keys" => /\ Len(keysRet[p]) = StoreLen(store)
                          /\ Range(keysRet[p]) = DOMAIN store

\* a Keys call returns two keys while the sweeper waits for it to leave
C13_Witness ==
    /\ sweeperPc = "sweep_pending"
    /\ \E p \in Callers : pc[p] = "keys" /\ Len(keysRet[p]) = 2

C15_SweeperTerminates ==
    /\ cancelled ~> (sweeperPc = "exited")
    /\ [][/\ sweeperPc = "exited" => (sweeperPc' = "exited" /\ ~SweepStep)
          /\ phase = "ready" => ENABLED Close
          /\ CloseStep => (sweeperPc' = sweeperPc /\ mu' = mu)]_vars

\* the sweeper has exited after running the sweep that Close found in progress
C15_Witness ==
    /\ sweeperPc = "exited"
    /\ timer = "drained"

\* C16: the timer is armed once, for ttl after the sweeper starts; a sweep cycle
\* begins only by taking the one value the timer sends, and a timer that was
\* taken never sends again: at most one sweep cycle runs, closed or not.
C16_OneShotTimer ==
    [][/\ (timer' = "armed" /\ timer # "armed")
             => (timer = "none" /\ deadline' = clock + ttl)
       /\ (sweeperPc' = "sweep_wait" /\ sweeperPc # "sweep_wait")
             => (timer = "fired" /\ timer' = "drained")
       /\ SweepStep => timer = "drained"
       /\ timer = "drained" => timer' = "drained"]_vars

\* the one sweep is over, the sweeper waits in select, and a stale entry stays
C16_Witness ==
    /\ timer = "drained"
    /\ sweeperPc = "select"
    /\ \E k \in Keys : Stale(k)

\* C17: a Set on a table of fewer than size entries removes no entry; after any
\* Set every other key still there has its value and timestamp of before; and
\* no step but a Set of k changes the timestamp of a key k that stays.
C17_SetFrame ==
    [][/\ \A p \in Callers :
             SetStep(p) =>
                /\ StoreLen(store) < size => DOMAIN store \subseteq DOMAIN store'
                /\ \A k \in DOMAIN store' \ {key'[p]} :
                      k \in DOMAIN store /\ store'[k] = store[k]
       /\ \A k \in DOMAIN store \cap DOMAIN store' :
             store'[k].time # store[k].time
                => \E p \in Callers : SetStep(p) /\ key'[p] = k]_vars

\* a Set has added a second entry next to one written earlier
C17_Witness ==
    \E p \in Callers :
        /\ pc[p] = "set" /\ StoreLen(store) = 2
        /\ store[key[p]].time = clock
        /\ \E k \in DOMAIN store : store[k].time < clock

\* C18: Close changes nothing but the cancellation; and on a closed cache Get,
\* Set and Keys are enabled under the same lock conditions as on an open one and
\* do the same: Set inserts, and evicts an oldest entry at capacity when one is
\* older than now; Get and Keys read the table.
C18_NoClosedState ==
    [][/\ CloseStep => UNCHANGED <<cacheVars, store, mu, clock, sweepVars, callerVars>>
       /\ cancelled =>
             \A p \in Callers :
                /\ (pc[p] = "idle" /\ ~mu.writer)
                      => (ENABLED Get(p) /\ ENABLED KeysCall(p))
                /\ (pc[p] = "idle" /\ ~mu.writer /\ mu.readers = 0) => ENABLED Set(p)
                /\ GetStep(p) => getRet'[p] = Lookup(store, key'[p])
                /\ KeysStep(p) => Range(keysRet'[p]) = DOMAIN store
                /\ SetStep(p) =>
                      /\ key'[p] \in DOMAIN store'
                      /\ store'[key'[p]].value = val'[p]
                      /\ (StoreLen(store) = size
                            /\ \E k \in DOMAIN store : store[k].time < clock)
                         => \E victim \in DOMAIN store :
                               /\ \A k \in DOMAIN store :
                                     store[victim].time <= store[k].time
                               /\ DOMAIN store' =
                                     (DOMAIN store \ {victim}) \cup {key'[p]}]_vars

\* on a closed cache a Set has inserted, leaving the table at capacity with
\* an older entry next to the new one
C18_Witness ==
    /\ cancelled
    /\ \E p \in Callers :
          /\ pc[p] = "set" /\ StoreLen(store) = 2
          /\ \E k \in DOMAIN store : store[k].time < store[key[p]].time

\* C19: Get finds k exactly when k is in the table, whatever the clock and the
\* timestamp say: an entry older than ttl is returned with found = true.
C19_GetIgnoresAge ==
    [][\A p \in Callers :
          GetStep(p) =>
             /\ getRet'[p][2] = (key'[p] \in DOMAIN store)
             /\ Stale(key'[p]) => getRet'[p] = <<store[key'[p]].value, TRUE>>]_vars

\* a Get has returned an entry that is older than ttl
C19_Witness ==
    \E p \in Callers :
        pc[p] = "get" /\ Stale(key[p]) /\ getRet[p][2]

====
